---- MODULE Spec2Model ----
(***************************************************************************)
(* Model of the HC-SR04 driver of src/src/lib.rs: one sensor handle        *)
(* (HcSr04), the measurement routine HcSr04::dist with its two bounded     *)
(* waits on the echo event source, the three unit accessors, and the echo  *)
(* line as an edge source running alongside the driver.                    *)
(*                                                                         *)
(* Durations and instants are integers in microseconds.  f64 values are    *)
(* exact rationals [num, den] in lowest terms (no rounding).               *)
(***************************************************************************)
EXTENDS Integers, Sequences, FiniteSets, TLC

VARIABLES
    trig,               \* HcSr04.trig: the LineHandle the handle owns
    echo,               \* HcSr04.echo: the Line the handle owns
    pc,                 \* position of the caller / of HcSr04::dist
    acc,                \* accessor in progress: "dist_cm", "dist_meter", "dist_mm"
    timeout,            \* argument timeout: Option<Duration>
    dist_threshold,     \* HcSr04.dist_threshold: DistanceUnit
    now,                \* the monotonic clock (Instant::now()), us since the call began
    start_time,         \* local start_time
    tx_time,            \* local tx_time
    effective_timeout,  \* local effective_timeout (us)
    remaining,          \* local remaining (us)
    pollStart,          \* instant at which the wait in progress was entered
    subscribed,         \* the LineEventHandle `events` is live
    events,             \* kernel fifo of the event handle: Seq of [edge, ts]
    distRes,            \* value returned by HcSr04::dist
    result,             \* value returned by the accessor
    trigLevel,          \* level last written to the trigger line
    ops,                \* history: operations performed by this call, in order
    emitted,            \* history: edges the echo line produced during this call
    read1,              \* history: outcome of the first events.next()
    read2,              \* history: outcome of the second events.next()
    tofUs,              \* history: the tof the distance was computed from (-1: none)
    rtRange,            \* argument of the last range_to_timeout call
    rtRes               \* what that call of range_to_timeout did

vars == <<pc, acc, timeout, dist_threshold, now, start_time, tx_time,
          effective_timeout, remaining, pollStart, subscribed, events,
          distRes, result, trigLevel, ops, emitted, read1, read2, tofUs,
          rtRange, rtRes, trig, echo>>

\* the variables of range_to_timeout, which no measurement touches
rtVars == <<rtRange, rtRes>>

\* the two lines of the handle, acquired by HcSr04::new
lineVars == <<trig, echo>>

-----------------------------------------------------------------------------
(* Bounds of the model *)

\* clock granularity while the driver is blocked in a wait (us)
TickUs == 1700
\* ticks by which the driver may lag behind a wait that can return
MaxLagTicks == 1
\* edges the echo line produces during one measurement
MaxEvents == 2
\* largest magnitude of a range handed to range_to_timeout
MaxRange == 40

-----------------------------------------------------------------------------
(* Program constants *)

DEFAULT_TIMEOUT_MICROSECS == 8746
SPEED_OF_SOUND == 343
I32_MAX == 2147483647
TRIG_SETUP_MICROS == 2
TRIG_PULSE_MICROS == 10

-----------------------------------------------------------------------------
(* f64 as exact rationals *)

RECURSIVE GCD(_, _)
GCD(a, b) == IF b = 0 THEN a ELSE GCD(b, a % b)

Abs(x) == IF x < 0 THEN -x ELSE x

Rat(n, d) ==
    LET g == GCD(Abs(n), d)
    IN  [num |-> n \div g, den |-> d \div g]

RatInt(n) == [num |-> n, den |-> 1]

RatMul(r, k) == Rat(r.num * k, r.den)

RatDiv(r, k) == Rat(r.num, r.den * k)

RatLess(a, b) == a.num * b.den < b.num * a.den

-----------------------------------------------------------------------------
(* Values *)

Edges == {"RisingEdge", "FallingEdge"}

NoneF == [some |-> FALSE, val |-> RatInt(0)]
SomeF(r) == [some |-> TRUE, val |-> r]

NoneDuration == [some |-> FALSE, us |-> 0]
SomeDuration(us) == [some |-> TRUE, us |-> us]

Err(e) == [ok |-> FALSE, err |-> e, opt |-> NoneF]
OkOpt(o) == [ok |-> TRUE, err |-> "", opt |-> o]

NoResult == [ok |-> FALSE, err |-> "", unit |-> "", val |-> RatInt(0)]
ErrUnit(e) == [ok |-> FALSE, err |-> e, unit |-> "", val |-> RatInt(0)]
OkUnit(u, v) == [ok |-> TRUE, err |-> "", unit |-> u, val |-> v]

Cm(v) == [unit |-> "Cm", val |-> v]
Mm(v) == [unit |-> "Mm", val |-> v]
Meter(v) == [unit |-> "Meter", val |-> v]

\* thresholds the handle is constructed with
Thresholds == {Cm(RatInt(0)), Mm(RatInt(300)), Meter(Rat(3, 10))}

\* timeouts the caller passes
Timeouts == {NoneDuration, SomeDuration(1250), SomeDuration(250)}

Accessors == {"dist_cm", "dist_meter", "dist_mm"}

-----------------------------------------------------------------------------
(* Pure helpers of the driver *)

Min(a, b) == IF a < b THEN a ELSE b

Max(a, b) == IF a > b THEN a ELSE b

\* Duration::as_millis: whole milliseconds, the rest is dropped
AsMillis(us) == us \div 1000

\* poll_with_timeout: the timeout handed to libc::poll, in milliseconds
PollTimeoutMs(us) == Min(AsMillis(us), I32_MAX)

\* poll_with_timeout: the match on the value libc::poll returned
poll_with_timeout(ret) ==
    CASE ret = -1 -> [ok |-> FALSE, err |-> "Io", val |-> FALSE]
      [] ret = 0  -> [ok |-> TRUE, err |-> "", val |-> FALSE]
      [] OTHER    -> [ok |-> TRUE, err |-> "", val |-> TRUE]

\* .unwrap_or_else(|_| -> bool {false})
UnwrapOrFalse(r) == IF r.ok THEN r.val ELSE FALSE

\* match timeout { Some(val) => 2 * val, None => DEFAULT }
EffectiveTimeout(t) ==
    IF t.some THEN 2 * t.us ELSE DEFAULT_TIMEOUT_MICROSECS

\* mutant of SaturatingSub: the elapsed time is not taken off the budget
SaturatingSub_NoElapsed(a, b) == a

\* mutant of SaturatingSub: a plain subtraction
SaturatingSub_Plain(a, b) == a - b

\* Duration::saturating_sub
SaturatingSub(a, b) == IF b >= a THEN 0 ELSE a - b

\* 50.0*(SPEED_OF_SOUND.to_val() * tof.as_secs_f64()), tof in us
DistOfTof(tof) == Rat(50 * SPEED_OF_SOUND * tof, 1000000)

\* mutant of ThresholdCm: the magnitude is taken as centimeters whatever the unit
ThresholdCm_Unscaled(t) == t.val

\* the threshold in centimeters
ThresholdCm(t) ==
    CASE t.unit = "Cm"    -> t.val
      [] t.unit = "Mm"    -> RatDiv(t.val, 10)
      [] t.unit = "Meter" -> RatMul(t.val, 100)

\* dist < Some(dist_threshold)
BelowThreshold(d, t) == RatLess(d, ThresholdCm(t))

\* mutant of dist_meter: the wrong scale
dist_meter_Div10(res) ==
    IF ~res.ok THEN ErrUnit(res.err)
    ELSE IF res.opt.some THEN OkUnit("Meter", RatDiv(res.opt.val, 10))
    ELSE ErrUnit("Io")

dist_meter(res) ==
    IF ~res.ok THEN ErrUnit(res.err)
    ELSE IF res.opt.some THEN OkUnit("Meter", RatDiv(res.opt.val, 100))
    ELSE ErrUnit("Io")

dist_cm(res) ==
    IF ~res.ok THEN ErrUnit(res.err)
    ELSE IF res.opt.some THEN OkUnit("Cm", res.opt.val)
    ELSE ErrUnit("Io")

dist_mm(res) ==
    IF ~res.ok THEN ErrUnit(res.err)
    ELSE IF res.opt.some THEN OkUnit("Mm", RatMul(res.opt.val, 10))
    ELSE ErrUnit("Io")

\* what libc::poll can return for a wait of ms milliseconds entered at
\* pollStart: 1 when an event is queued, 0 once the timeout elapsed with
\* none, -1 when the call itself fails
LibcPoll(ms) ==
    {-1} \cup (IF events # <<>> THEN {1}
               ELSE IF now - pollStart >= ms * 1000 THEN {0} ELSE {})

\* an entry of the history `ops`: ok is whether the call itself succeeded
Op(name, arg, ok) == [op |-> name, arg |-> arg, ok |-> ok]

Pending == [ok |-> FALSE, err |-> "", opt |-> NoneF]

-----------------------------------------------------------------------------
(* range_to_timeout *)

NotCalled == [kind |-> "None", us |-> 0, ns |-> 0]
RtErr == [kind |-> "Err", us |-> 0, ns |-> 0]
RtPanic == [kind |-> "Panic", us |-> 0, ns |-> 0]
RtOk(us, ns) == [kind |-> "Ok", us |-> us, ns |-> ns]

\* Duration::from_secs_f64 of n/d seconds (d > 0): panics on a negative
\* value; otherwise whole microseconds and the nanoseconds left, rounded to
\* the nearest nanosecond (ties to even)
FromSecs(n, d) ==
    IF n < 0 THEN RtPanic
    ELSE LET us == (n * 1000000) \div d
             r1 == (n * 1000000) % d
             q == (r1 * 1000) \div d
             r2 == (r1 * 1000) % d
             ns == IF 2 * r2 > d \/ (2 * r2 = d /\ q % 2 = 1)
                     THEN q + 1 ELSE q
         IN  IF ns = 1000 THEN RtOk(us + 1, 0) ELSE RtOk(us, ns)

\* mutant of range_to_timeout: a millimeter range is converted like the others
range_to_timeout_MmAccepted(range) ==
    LET res == CASE range.unit = "Meter" ->
                      RatDiv(RatDiv(range.val, 2), SPEED_OF_SOUND)
                 [] range.unit = "Cm" ->
                      RatDiv(RatDiv(range.val, 200), SPEED_OF_SOUND)
                 [] range.unit = "Mm" ->
                      RatDiv(RatDiv(range.val, 2000), SPEED_OF_SOUND)
    IN  FromSecs(res.num, res.den)

\* mutant of range_to_timeout: the centimeter branch forgets the cm -> m scale
range_to_timeout_CmUnscaled(range) ==
    IF range.unit = "Mm" THEN RtErr
    ELSE LET res == RatDiv(RatDiv(range.val, 2), SPEED_OF_SOUND)
         IN  FromSecs(res.num, res.den)

range_to_timeout(range) ==
    IF range.unit = "Mm" THEN RtErr
    ELSE LET res == CASE range.unit = "Meter" ->
                           RatDiv(RatDiv(range.val, 2), SPEED_OF_SOUND)
                      [] range.unit = "Cm" ->
                           RatDiv(RatDiv(range.val, 200), SPEED_OF_SOUND)
         IN  FromSecs(res.num, res.den)

\* ranges the caller passes: v cm, v/100 m, v m and v mm
Ranges ==
    UNION { {Cm(RatInt(v)), Meter(Rat(v, 100)), Meter(RatInt(v)), Mm(RatInt(v))} :
            v \in (-MaxRange)..MaxRange }

-----------------------------------------------------------------------------
(* Initial state: the handle as HcSr04::new leaves it *)

Init ==
    /\ pc = "idle"
    /\ acc = "dist_cm"
    /\ timeout = NoneDuration
    /\ dist_threshold \in Thresholds
    /\ now = 0
    /\ start_time = 0
    /\ tx_time = 0
    /\ effective_timeout = 0
    /\ remaining = 0
    /\ pollStart = 0
    /\ subscribed = FALSE
    /\ events = <<>>
    /\ distRes = Pending
    /\ result = NoResult
    /\ trigLevel = 0
    /\ ops = <<>>
    /\ emitted = <<>>
    /\ read1 = "none"
    /\ read2 = "none"
    /\ tofUs = -1
    /\ rtRange = Cm(RatInt(0))
    /\ rtRes = NotCalled
    /\ trig = [line |-> "trig", request |-> "OUTPUT", consumer |-> "hc-sr04-trigger"]
    /\ echo = [line |-> "echo"]

-----------------------------------------------------------------------------
(* The caller enters dist_cm / dist_meter / dist_mm, which enters dist *)

Measure(a, t) ==
    /\ UNCHANGED rtVars
    /\ UNCHANGED lineVars
    /\ pc = "idle"
    /\ pc' = "trig_low"
    /\ acc' = a
    /\ timeout' = t
    /\ now' = 0
    /\ start_time' = 0
    /\ tx_time' = 0
    /\ effective_timeout' = 0
    /\ remaining' = 0
    /\ pollStart' = 0
    /\ distRes' = Pending
    /\ result' = NoResult
    /\ ops' = <<>>
    /\ emitted' = <<>>
    /\ read1' = "none"
    /\ read2' = "none"
    /\ tofUs' = -1
    /\ UNCHANGED <<dist_threshold, subscribed, events, trigLevel>>

\* mutant of Return: the event handle outlives the call
Return_KeepsSubscription(r) ==
    /\ distRes' = r
    /\ pc' = "dist_ret"
    /\ UNCHANGED <<subscribed, events>>

\* dist returns r: the locals go out of scope, `events` is dropped
Return(r) ==
    /\ distRes' = r
    /\ pc' = "dist_ret"
    /\ subscribed' = FALSE
    /\ events' = <<>>

\* self.trig.set_value(level), at position `at`; on success go to `next`
SetValue(at, level, next, ok) ==
    /\ UNCHANGED rtVars
    /\ UNCHANGED lineVars
    /\ pc = at
    /\ ops' = Append(ops, Op("set_value", level, ok))
    /\ IF ok
         THEN /\ trigLevel' = level
              /\ pc' = next
              /\ UNCHANGED <<distRes, subscribed, events>>
         ELSE /\ Return(Err("Io"))
              /\ UNCHANGED trigLevel
    /\ UNCHANGED <<acc, timeout, dist_threshold, now, start_time, tx_time,
                   effective_timeout, remaining, pollStart, result,
                   emitted, read1, read2, tofUs>>

\* sleep(Duration::from_micros(us))
Sleep(at, us, next) ==
    /\ UNCHANGED rtVars
    /\ UNCHANGED lineVars
    /\ pc = at
    /\ pc' = next
    /\ now' = now + us
    /\ ops' = Append(ops, Op("sleep", us, TRUE))
    /\ UNCHANGED <<acc, timeout, dist_threshold, start_time, tx_time,
                   effective_timeout, remaining, pollStart, subscribed,
                   events, distRes, result, trigLevel, emitted, read1,
                   read2, tofUs>>

\* mutant of TrigHigh: a failed set_value(1) does not end the measurement
TrigHigh_IgnoresFailure(ok) ==
    /\ UNCHANGED rtVars
    /\ UNCHANGED lineVars
    /\ pc = "trig_high"
    /\ ops' = Append(ops, Op("set_value", 1, ok))
    /\ trigLevel' = IF ok THEN 1 ELSE trigLevel
    /\ pc' = "sleep_pulse"
    /\ UNCHANGED <<acc, timeout, dist_threshold, now, start_time, tx_time,
                   effective_timeout, remaining, pollStart, subscribed,
                   events, distRes, result, emitted, read1, read2, tofUs>>

TrigLow1(ok) == SetValue("trig_low", 0, "sleep_setup", ok)
SleepSetup == Sleep("sleep_setup", TRIG_SETUP_MICROS, "trig_high")
TrigHigh(ok) == SetValue("trig_high", 1, "sleep_pulse", ok)
SleepPulse == Sleep("sleep_pulse", TRIG_PULSE_MICROS, "trig_low2")
TrigLow2(ok) == SetValue("trig_low2", 0, "subscribe", ok)

\* mutant of SubscribeError: a failed subscription reported as a generic I/O error
SubscribeError_Io == "Io"

\* None => return Err(HcSr04Error::LineEventHandleRequest)
SubscribeError == "LineEventHandleRequest"

\* start_time, tx_time, self.echo.events(..BOTH_EDGES..), effective_timeout,
\* and the entry into the first poll_with_timeout
Subscribe(ok) ==
    /\ UNCHANGED rtVars
    /\ UNCHANGED lineVars
    /\ pc = "subscribe"
    /\ start_time' = now
    /\ tx_time' = now
    /\ ops' = Append(ops, Op("events", 0, ok))
    /\ IF ok
         THEN /\ subscribed' = TRUE
              /\ events' = <<>>
              /\ effective_timeout' = EffectiveTimeout(timeout)
              /\ pollStart' = now
              /\ pc' = "poll1"
              /\ UNCHANGED distRes
         ELSE /\ Return(Err(SubscribeError))
              /\ UNCHANGED <<effective_timeout, pollStart>>
    /\ UNCHANGED <<acc, timeout, dist_threshold, now, remaining, result,
                   trigLevel, emitted, read1, read2, tofUs>>

\* if let Some(Ok(event)) = events.next(): the event read, if any
NextEvent(readOk) ==
    IF readOk /\ events # <<>>
      THEN [some |-> TRUE, edge |-> Head(events).edge]
      ELSE [some |-> FALSE, edge |-> "ReadErr"]

\* the fifo after events.next()
AfterNext(readOk) ==
    IF readOk /\ events # <<>> THEN Tail(events) ELSE events

\* first poll_with_timeout returns, first events.next(), `remaining`, and the
\* entry into the second poll_with_timeout
FirstWait(ret, readOk) ==
    /\ UNCHANGED rtVars
    /\ UNCHANGED lineVars
    /\ pc = "poll1"
    /\ ret \in LibcPoll(PollTimeoutMs(effective_timeout))
    /\ IF ~UnwrapOrFalse(poll_with_timeout(ret))
         THEN /\ Return(Err("PollFd"))
              /\ ops' = Append(ops, Op("poll", PollTimeoutMs(effective_timeout), ret # -1))
              /\ UNCHANGED <<tx_time, remaining, pollStart, read1>>
         ELSE LET ev == NextEvent(readOk)
              IN  /\ read1' = ev.edge
                  /\ events' = AfterNext(readOk)
                  /\ tx_time' = IF ev.some /\ ev.edge = "RisingEdge"
                                  THEN now ELSE tx_time
                  /\ remaining' = SaturatingSub(effective_timeout, now - start_time)
                  /\ pollStart' = now
                  /\ ops' = ops \o <<Op("poll", PollTimeoutMs(effective_timeout), TRUE),
                                     Op("next", 1, ev.some)>>
                  /\ pc' = "poll2"
                  /\ UNCHANGED <<distRes, subscribed>>
    /\ UNCHANGED <<acc, timeout, dist_threshold, now, start_time,
                   effective_timeout, result, trigLevel, emitted, read2, tofUs>>

\* the value dist returns after the second events.next()
Resolve(ev, tof) ==
    IF ev.some /\ ev.edge = "FallingEdge"
      THEN IF BelowThreshold(DistOfTof(tof), dist_threshold)
             THEN OkOpt(NoneF)
             ELSE OkOpt(SomeF(DistOfTof(tof)))
      ELSE OkOpt(NoneF)

\* second poll_with_timeout returns, second events.next(), distance, threshold
SecondWait(ret, readOk) ==
    /\ UNCHANGED rtVars
    /\ UNCHANGED lineVars
    /\ pc = "poll2"
    /\ ret \in LibcPoll(PollTimeoutMs(remaining))
    /\ IF ~UnwrapOrFalse(poll_with_timeout(ret))
         THEN /\ Return(Err("PollFd"))
              /\ ops' = Append(ops, Op("poll", PollTimeoutMs(remaining), ret # -1))
              /\ UNCHANGED <<read2, tofUs>>
         ELSE LET ev == NextEvent(readOk)
              IN  /\ read2' = ev.edge
                  /\ tofUs' = IF ev.some /\ ev.edge = "FallingEdge"
                                THEN now - tx_time ELSE tofUs
                  /\ Return(Resolve(ev, now - tx_time))
                  /\ ops' = ops \o <<Op("poll", PollTimeoutMs(remaining), TRUE),
                                     Op("next", 2, ev.some)>>
    /\ UNCHANGED <<acc, timeout, dist_threshold, now, start_time, tx_time,
                   effective_timeout, remaining, pollStart, result, trigLevel,
                   emitted, read1>>

\* mutant of AccessorReturn: the handle remembers the last reading as its
\* threshold
AccessorReturn_CachesReading ==
    /\ UNCHANGED rtVars
    /\ UNCHANGED lineVars
    /\ pc = "dist_ret"
    /\ result' = CASE acc = "dist_meter" -> dist_meter(distRes)
                   [] acc = "dist_cm"    -> dist_cm(distRes)
                   [] acc = "dist_mm"    -> dist_mm(distRes)
    /\ dist_threshold' = IF distRes.ok /\ distRes.opt.some
                            THEN Cm(distRes.opt.val)
                            ELSE dist_threshold
    /\ pc' = "idle"
    /\ UNCHANGED <<acc, timeout, now, start_time, tx_time,
                   effective_timeout, remaining, pollStart, subscribed,
                   events, distRes, trigLevel, ops, emitted, read1, read2,
                   tofUs>>

\* dist_meter / dist_cm / dist_mm: `?` and the match on dist's value
AccessorReturn ==
    /\ UNCHANGED rtVars
    /\ UNCHANGED lineVars
    /\ pc = "dist_ret"
    /\ result' = CASE acc = "dist_meter" -> dist_meter(distRes)
                   [] acc = "dist_cm"    -> dist_cm(distRes)
                   [] acc = "dist_mm"    -> dist_mm(distRes)
    /\ pc' = "idle"
    /\ UNCHANGED <<acc, timeout, dist_threshold, now, start_time, tx_time,
                   effective_timeout, remaining, pollStart, subscribed,
                   events, distRes, trigLevel, ops, emitted, read1, read2,
                   tofUs>>

-----------------------------------------------------------------------------
(* The environment: the echo line and the clock *)

\* the echo line makes an edge; the kernel queues it on the live handle
Emit(e) ==
    /\ UNCHANGED rtVars
    /\ UNCHANGED lineVars
    /\ subscribed
    /\ Len(emitted) < MaxEvents
    /\ events' = Append(events, [edge |-> e, ts |-> now])
    /\ emitted' = Append(emitted, [edge |-> e, ts |-> now])
    /\ UNCHANGED <<pc, acc, timeout, dist_threshold, now, start_time, tx_time,
                   effective_timeout, remaining, pollStart, subscribed,
                   distRes, result, trigLevel, ops, read1, read2, tofUs>>

\* the timeout of the wait in progress, as handed to libc::poll (ms)
WaitMs ==
    IF pc = "poll1" THEN PollTimeoutMs(effective_timeout)
    ELSE PollTimeoutMs(remaining)

\* the instant from which the wait in progress can return
ReadySince ==
    IF events # <<>> THEN Max(pollStart, Head(events).ts)
    ELSE pollStart + WaitMs * 1000

\* time can pass: the driver is blocked in a wait, or is late to wake up
\* from it (scheduling latency, at most MaxLagTicks ticks)
CanTick ==
    /\ pc \in {"poll1", "poll2"}
    /\ now + TickUs - ReadySince <= MaxLagTicks * TickUs

Tick ==
    /\ UNCHANGED rtVars
    /\ UNCHANGED lineVars
    /\ CanTick
    /\ now' = now + TickUs
    /\ UNCHANGED <<pc, acc, timeout, dist_threshold, start_time, tx_time,
                   effective_timeout, remaining, pollStart, subscribed,
                   events, distRes, result, trigLevel, ops, emitted, read1,
                   read2, tofUs>>

-----------------------------------------------------------------------------

Next ==
    \/ \E a \in Accessors, t \in Timeouts : Measure(a, t)
    \/ \E ok \in BOOLEAN : TrigLow1(ok)
    \/ SleepSetup
    \/ \E ok \in BOOLEAN : TrigHigh(ok)
    \/ SleepPulse
    \/ \E ok \in BOOLEAN : TrigLow2(ok)
    \/ \E ok \in BOOLEAN : Subscribe(ok)
    \/ \E ret \in {-1, 0, 1}, readOk \in BOOLEAN : FirstWait(ret, readOk)
    \/ \E ret \in {-1, 0, 1}, readOk \in BOOLEAN : SecondWait(ret, readOk)
    \/ AccessorReturn
    \/ \E e \in Edges : Emit(e)
    \/ Tick

Spec == Init /\ [][Next]_vars

\* a step of the driver in which no call into the OS fails by itself
DriverStep ==
    \/ TrigLow1(TRUE)
    \/ SleepSetup
    \/ TrigHigh(TRUE)
    \/ SleepPulse
    \/ TrigLow2(TRUE)
    \/ Subscribe(TRUE)
    \/ \E ret \in {0, 1} : FirstWait(ret, TRUE)
    \/ \E ret \in {0, 1} : SecondWait(ret, TRUE)
    \/ AccessorReturn

\* the calling thread keeps running, the clock keeps advancing, and poll
\* returns once an event is queued or its timeout has elapsed
FairSpec == Spec /\ WF_vars(DriverStep) /\ WF_vars(Tick)

-----------------------------------------------------------------------------
(* The caller computes a timeout from a range, no measurement in progress *)

RangeToTimeout(range) ==
    /\ pc = "idle"
    /\ rtRange' = range
    /\ rtRes' = range_to_timeout(range)
    /\ UNCHANGED lineVars
    /\ UNCHANGED <<pc, acc, timeout, dist_threshold, now, start_time, tx_time,
                   effective_timeout, remaining, pollStart, subscribed,
                   events, distRes, result, trigLevel, ops, emitted, read1,
                   read2, tofUs>>

NextRange == \E range \in Ranges : RangeToTimeout(range)

SpecRange == Init /\ [][NextRange]_vars

TypeOK ==
    /\ pc \in {"idle", "trig_low", "sleep_setup", "trig_high", "sleep_pulse",
               "trig_low2", "subscribe", "poll1", "poll2", "dist_ret"}
    /\ acc \in Accessors
    /\ timeout \in Timeouts
    /\ dist_threshold \in Thresholds
    /\ now >= 0 /\ start_time <= now /\ tx_time <= now
    /\ subscribed \in BOOLEAN
    /\ Len(events) <= MaxEvents

-----------------------------------------------------------------------------
(* Vocabulary of the properties *)

\* an accessor has returned to the caller
Returned == pc = "idle" /\ result # NoResult

\* the measurement got as far as waiting on the event source
Waited == \E i \in DOMAIN ops : ops[i].op = "poll"

\* no call into the OS failed by itself (set_value, events, poll, read)
NoFault == \A i \in DOMAIN ops : ops[i].ok

\* the echo line produced a rising edge within the budget T_total
RisingWithinBudget ==
    \E i \in DOMAIN emitted :
        /\ emitted[i].edge = "RisingEdge"
        /\ emitted[i].ts - start_time <= effective_timeout

\* the echo line produced a falling edge within the budget T_total
FallingWithinBudget ==
    \E i \in DOMAIN emitted :
        /\ emitted[i].edge = "FallingEdge"
        /\ emitted[i].ts - start_time <= effective_timeout

-----------------------------------------------------------------------------
(* C1: if no rising edge arrives on the echo line within the budget T_total,
   the measurement fails with the timeout error PollFd and produces no
   distance, whatever falling edges arrive in the meantime. *)
C1_NoRisingEdgeTimesOut ==
    (Returned /\ Waited /\ NoFault /\ ~RisingWithinBudget)
        => result = ErrUnit("PollFd")

(* C2: if a rising edge was observed in the first wait and no falling edge
   arrives before the budget elapses, the measurement fails with PollFd,
   also when the only further events are rising edges. *)
C2_NoFallingEdgeTimesOut ==
    (Returned /\ NoFault /\ read1 = "RisingEdge" /\ ~FallingWithinBudget)
        => result = ErrUnit("PollFd")

(* C4: a returned distance is computed from tof = t_fall - t_rise, t_rise
   stamped for a rising edge read in this measurement and t_fall for a later
   falling edge; every other event sequence ends in an error. *)
C4_NoFabricatedDistance ==
    (Returned /\ NoFault /\ result.ok)
        => (read1 = "RisingEdge" /\ read2 = "FallingEdge")

(* C5: in the rising-edge wait only a rising edge advances the state
   machine: after consuming a falling edge the measurement is not in the
   falling-edge wait. *)
C5_FallingEdgeDoesNotAdvance ==
    pc = "poll2" => read1 # "FallingEdge"

\* a unit-tagged value in centimeters (1 m = 100 cm = 1000 mm), in lowest terms
CmOf(d) ==
    IF d.unit = "Meter" THEN Rat(d.val.num * 100, d.val.den)
    ELSE IF d.unit = "Mm" THEN Rat(d.val.num, d.val.den * 10)
    ELSE d.val
CmNum(d) == CmOf(d).num
CmDen(d) == CmOf(d).den

\* the distance of a time-of-flight of tof us (343 * tof / 20000 cm) is below
\* the configured threshold
TofBelowThreshold(tof) ==
    343 * tof * CmDen(dist_threshold) < CmNum(dist_threshold) * 20000

(* C3: an accessor never returns a distance whose centimeter value is less
   than the threshold (given in mm, cm or m); when the computed distance is
   below the threshold the resolver reports no measurement and the accessor
   returns the error Io. *)
C3_ThresholdFilter ==
    /\ result.ok =>
          CmNum(result) * CmDen(dist_threshold)
              >= CmNum(dist_threshold) * CmDen(result)
    /\ (read2 = "FallingEdge" /\ TofBelowThreshold(tofUs)) =>
          /\ distRes = OkOpt(NoneF)
          /\ Returned => result = ErrUnit("Io")

C3_Witness ==
    /\ Returned
    /\ read1 = "RisingEdge"
    /\ read2 = "FallingEdge"
    /\ tofUs > 0
    /\ TofBelowThreshold(tofUs)
    /\ dist_threshold.unit = "Meter"
    /\ result = ErrUnit("Io")

\* the trigger pulse: set-low, hold 2 us, set-high, hold 10 us, set-low
TriggerPulse ==
    << [op |-> "set_value", arg |-> 0], [op |-> "sleep", arg |-> 2],
       [op |-> "set_value", arg |-> 1], [op |-> "sleep", arg |-> 10],
       [op |-> "set_value", arg |-> 0] >>

(* C6: every measurement drives the trigger line through set-low, hold 2 us,
   set-high, hold 10 us, set-low, in that order and before any subscription
   or wait; a failed set-level step ends the measurement with Io at once:
   it is the last operation performed. *)
C6_TriggerSequence ==
    /\ \A i \in DOMAIN ops :
          /\ i <= 5 => /\ ops[i].op = TriggerPulse[i].op
                       /\ ops[i].arg = TriggerPulse[i].arg
          /\ i > 5 => /\ ops[i].op \in {"events", "poll", "next"}
                      /\ \A j \in 1..5 : ops[j].ok
          /\ (ops[i].op = "set_value" /\ ~ops[i].ok) =>
                /\ i = Len(ops)
                /\ distRes = Err("Io")
                /\ pc \in {"dist_ret", "idle"}
                /\ Returned => result = ErrUnit("Io")
    /\ pc \in {"subscribe", "poll1", "poll2"} => Len(ops) >= 5
    /\ (Returned /\ Len(ops) < 5) => ~ops[Len(ops)].ok
    /\ Len(ops) >= 5 /\ ops[5].ok => trigLevel = 0

C6_Witness ==
    /\ Returned
    /\ Len(ops) = 5
    /\ ~ops[5].ok
    /\ trigLevel = 1
    /\ now = 12
    /\ result = ErrUnit("Io")

(* C7: the echo edge subscription is requested once per measurement, only
   after the trigger pulse has completed; if it fails the measurement returns
   LineEventHandleRequest and no wait on the event source is performed. *)
C7_Subscription ==
    /\ \A i \in DOMAIN ops :
          /\ ops[i].op = "events" => i = 6 /\ \A j \in 1..5 : ops[j].ok
          /\ ops[i].op \in {"poll", "next"} => i > 6 /\ ops[6].ok
    /\ pc \in {"poll1", "poll2"} => Len(ops) >= 6 /\ subscribed
    /\ (Len(ops) >= 6 /\ ~ops[6].ok) =>
          /\ Len(ops) = 6
          /\ distRes = Err("LineEventHandleRequest")
          /\ Returned => result = ErrUnit("LineEventHandleRequest")

C7_Witness ==
    /\ Returned
    /\ Len(ops) = 6
    /\ ops[6] = [op |-> "events", arg |-> 0, ok |-> FALSE]
    /\ result = ErrUnit("LineEventHandleRequest")

(* C8: T_total is twice the caller's timeout, or 8746 us when none is given;
   the budget of the falling-edge wait is T_total minus the time elapsed
   since t0, clamped to zero when already exceeded. *)
C8_TimeoutBudget ==
    /\ pc \in {"poll1", "poll2"} =>
          effective_timeout =
              IF timeout.some THEN timeout.us + timeout.us ELSE 8746
    /\ pc = "poll2" =>
          /\ remaining >= 0
          /\ remaining =
                IF pollStart - start_time > effective_timeout THEN 0
                ELSE effective_timeout - (pollStart - start_time)

C8_Witness ==
    /\ pc = "poll2"
    /\ timeout.some
    /\ pollStart - start_time > effective_timeout
    /\ remaining = 0

(* C9: with the echo line emitting the rising edge at t+D1 and the falling
   edge at t+D1+D2, both within the budget, and the threshold not filtering,
   the resolved centimeter distance is 50 x 343 x D2 (D2 in seconds), for
   every interleaving of the emissions with the driver's waits and reads. *)
C9_DistanceIsPulseWidth ==
    ( /\ pc \in {"dist_ret", "idle"}
      /\ NoFault
      /\ Len(emitted) = 2
      /\ emitted[1].edge = "RisingEdge"
      /\ emitted[2].edge = "FallingEdge"
      /\ emitted[2].ts > emitted[1].ts
      /\ emitted[2].ts - start_time <= effective_timeout
      /\ CmNum(dist_threshold) = 0 )
    => distRes = OkOpt(SomeF(Rat(343 * (emitted[2].ts - emitted[1].ts), 20000)))

(* C10: the three accessors agree on one measurement: they all fail with the
   same error, or all succeed with values tagged Cm, Meter and Mm where the
   meter value is the cm value / 100 and the mm value the cm value x 10. *)
C10_AccessorsAgree ==
    pc = "dist_ret" =>
        LET c == dist_cm(distRes)
            m == dist_meter(distRes)
            mm == dist_mm(distRes)
        IN  \/ /\ ~c.ok /\ ~m.ok /\ ~mm.ok
               /\ c.err = m.err /\ m.err = mm.err
               /\ c.err \in {"Io", "LineEventHandleRequest", "PollFd"}
            \/ /\ c.ok /\ m.ok /\ mm.ok
               /\ c.unit = "Cm" /\ m.unit = "Meter" /\ mm.unit = "Mm"
               /\ Rat(m.val.num * 100, m.val.den) = c.val
               /\ mm.val = Rat(c.val.num * 10, c.val.den)

\* a pulse of 1700 us: 29.155 cm, 0.29155 m, 291.55 mm
C10_Witness ==
    /\ pc = "dist_ret"
    /\ tofUs = 1700
    /\ dist_cm(distRes) = OkUnit("Cm", [num |-> 5831, den |-> 200])
    /\ dist_meter(distRes) = OkUnit("Meter", [num |-> 5831, den |-> 20000])
    /\ dist_mm(distRes) = OkUnit("Mm", [num |-> 5831, den |-> 20])

-----------------------------------------------------------------------------
\* the call into the OS that failed, if any: poll or the read of an event
WaitFault ==
    \E i \in DOMAIN ops : ops[i].op \in {"poll", "next"} /\ ~ops[i].ok

(* C11: timeout errors are exactly wait expiries: a measurement returns
   PollFd only when its last wait elapsed with no edge observed; a failure of
   the OS wait call itself or a failed event read is reported as Io. *)
C11_TimeoutIsWaitExpiry ==
    /\ (Returned /\ result = ErrUnit("PollFd")) =>
          /\ ops[Len(ops)].op = "poll"
          /\ ops[Len(ops)].ok
    /\ (Returned /\ WaitFault) => result = ErrUnit("Io")

-----------------------------------------------------------------------------
\* range_to_timeout has been called
RtCalled == rtRes # NotCalled

(* C12: range_to_timeout is unit-equivalent: for v > 0 a range of v cm and a
   range of v/100 m give the same duration, (range in meters / 2) / 343
   seconds, i.e. v * 10^6 / 68600 us to the microsecond. *)
C12_UnitEquivalence ==
    (RtCalled /\ rtRange.unit = "Cm" /\ rtRange.val.num > 0) =>
        /\ rtRes.kind = "Ok"
        /\ rtRes = range_to_timeout(Meter(Rat(rtRange.val.num, rtRange.val.den * 100)))
        /\ rtRes.us \in { (rtRange.val.num * 1000000) \div 68600,
                          (rtRange.val.num * 1000000) \div 68600 + 1 }
        /\ rtRes.us = (rtRange.val.num * 1000000) \div 68600 + 1 => rtRes.ns = 0

\* 4 cm (the range of the usage example): 58309 ns
C12_Witness ==
    /\ rtRange = Cm(RatInt(4))
    /\ rtRes = RtOk(58, 309)
    /\ range_to_timeout(Meter(Rat(1, 25))) = RtOk(58, 309)

(* C13: range_to_timeout rejects a millimeter range with an invalid-unit
   error for any magnitude, zero and negative included, and never returns a
   duration for it. *)
C13_MillimetersRejected ==
    (RtCalled /\ rtRange.unit = "Mm") => rtRes = RtErr

C13_Witness ==
    /\ rtRange = Mm(RatInt(-3))
    /\ rtRes = RtErr

(* C20: all failures of the public operations are returned as error values:
   range_to_timeout returns a duration or an error for every input, a
   negative range in meters or centimeters included; no input makes it
   abort. *)
C20_FailuresAreValues ==
    RtCalled => rtRes.kind \in {"Ok", "Err"}

-----------------------------------------------------------------------------
(* C14: when an accessor is called with timeout None, the measurement uses a
   default timeout of 5.831 ms (as the budget, or as the timeout that is then
   doubled). *)
C14_DefaultTimeout ==
    (pc \in {"poll1", "poll2"} /\ ~timeout.some) =>
        (effective_timeout = 5831 \/ effective_timeout = 2 * 5831)

(* C15: in the falling-edge wait an edge that is not a falling edge is
   ignored without error: a measurement whose second read consumed a rising
   edge does not end in the error Io because of it. *)
C15_RisingEdgeIgnoredInSecondWait ==
    (Returned /\ NoFault /\ read2 = "RisingEdge") => result # ErrUnit("Io")

\* the first wait elapsed: poll returned 0 and the measurement ended there
FirstWaitTimedOut ==
    /\ Returned
    /\ Len(ops) = 7
    /\ ops[7].op = "poll"
    /\ ops[7].ok
    /\ result = ErrUnit("PollFd")

(* C16: the rising-edge wait blocks for up to T_total, for every T_total in
   microseconds: it fails with the timeout error only when T_total has
   elapsed since the start of the wait. *)
C16_FirstWaitLastsTotal ==
    FirstWaitTimedOut => now - pollStart >= effective_timeout

-----------------------------------------------------------------------------
\* how many operations of a kind this measurement performed
Count(name) == Cardinality({i \in DOMAIN ops : ops[i].op = name})

\* at most one trigger pulse, one subscription, two waits and two reads; the
\* timeouts handed to the two waits, with the time spent before the second,
\* stay within T_total; a returned call has a terminal result
C17_Bounded ==
    /\ Count("set_value") <= 3
    /\ Count("sleep") <= 2
    /\ Count("events") <= 1
    /\ Count("poll") <= 2
    /\ Count("next") <= 2
    /\ Len(ops) >= 7 => ops[7].arg * 1000 <= effective_timeout
    /\ (Len(ops) >= 9 /\ ops[9].op = "poll") =>
          \/ ops[9].arg = 0
          \/ (pollStart - start_time) + ops[9].arg * 1000 <= effective_timeout
    /\ Returned =>
          \/ result.ok
          \/ result.err \in {"Io", "LineEventHandleRequest", "PollFd"}

\* a measurement in progress is never stuck: outside the waits the driver can
\* take a step in which no OS call fails (after dist has returned, the
\* accessor maps the value it was given); in a wait libc::poll can return 0
\* or 1, or the wait's timeout is still running; each
\* such step adds to `ops` or moves the clock towards the timeout, so the
\* call returns
C17_CanProceed ==
    CASE pc = "idle" -> TRUE
      [] pc \in {"poll1", "poll2"} ->
            \/ \E ret \in {0, 1} : ret \in LibcPoll(WaitMs)
            \/ CanTick
      [] pc = "dist_ret" -> acc \in Accessors /\ distRes # Pending
      [] OTHER -> ENABLED DriverStep

(* C17: every measurement call terminates without retry: at most one trigger
   pulse, one subscription and two waits, whose timeouts together stay
   within T_total, and control returns to the caller with a terminal result
   for every behaviour of the echo line, one without any edge included. *)
C17_TerminatesWithoutRetry ==
    /\ C17_Bounded
    /\ C17_CanProceed
    /\ \A i \in DOMAIN ops : ops[i].op = "poll" => ops[i].arg >= 0

\* the same as a liveness property, under FairSpec: a call that was entered
\* returns
C17_EventuallyReturns == (pc = "trig_low") ~> Returned

\* the echo line never produced an edge: the first wait expired and the call returned
C17_Witness ==
    /\ FirstWaitTimedOut
    /\ emitted = <<>>
    /\ ~timeout.some
    /\ now - start_time >= 8000

\* the successful subscription requests of the call in progress
LiveRequests == {i \in DOMAIN ops : ops[i].op = "events" /\ ops[i].ok}

(* C18: across any sequence of measurement calls on one handle the echo
   event subscription is requested afresh in each call and released before
   the call returns on every path, so at most one subscription is ever live
   and none is live between calls; at the point where a call requests the
   subscription the line is free and the request can succeed, whatever the
   earlier calls did. *)
C18_SubscriptionPerCall ==
    /\ subscribed <=> pc \in {"poll1", "poll2"}
    /\ subscribed => Cardinality(LiveRequests) = 1
    /\ Cardinality(LiveRequests) <= 1
    /\ ~subscribed => events = <<>>
    /\ pc = "subscribe" => ~subscribed /\ ENABLED Subscribe(TRUE)
    /\ Returned => ~subscribed

\* a call that had subscribed and then failed in a wait has returned, and the
\* subscription is released
C18_Witness ==
    /\ Returned
    /\ result = ErrUnit("PollFd")
    /\ Cardinality(LiveRequests) = 1
    /\ read1 = "RisingEdge"
    /\ ~subscribed
    /\ events = <<>>

\* the state in which a call enters dist: every local is fresh and no event
\* handle exists
FreshCall ==
    /\ now = 0 /\ start_time = 0 /\ tx_time = 0
    /\ effective_timeout = 0 /\ remaining = 0 /\ pollStart = 0
    /\ distRes = Pending /\ result = NoResult
    /\ ops = <<>> /\ emitted = <<>>
    /\ read1 = "none" /\ read2 = "none" /\ tofUs = -1
    /\ ~subscribed /\ events = <<>>

\* what dist returns, as a function of the threshold and of what this call
\* did and read
DistOfCall ==
    IF \E i \in DOMAIN ops : ops[i].op = "set_value" /\ ~ops[i].ok
      THEN Err("Io")
    ELSE IF \E i \in DOMAIN ops : ops[i].op = "events" /\ ~ops[i].ok
      THEN Err("LineEventHandleRequest")
    ELSE IF ops[Len(ops)].op = "poll"
      THEN Err("PollFd")
    ELSE IF read2 = "FallingEdge"
              /\ ~BelowThreshold(DistOfTof(tofUs), dist_threshold)
      THEN OkOpt(SomeF(DistOfTof(tofUs)))
    ELSE OkOpt(NoneF)

\* what the accessor of this call returns
ResultOfCall ==
    CASE acc = "dist_meter" -> dist_meter(DistOfCall)
      [] acc = "dist_cm"    -> dist_cm(DistOfCall)
      [] acc = "dist_mm"    -> dist_mm(DistOfCall)

(* C19: measurements share no mutable state: no step of a measurement
   changes the handle's distance threshold or its trigger and echo lines,
   every call enters dist with fresh locals whatever the earlier calls
   returned, and the result is a function of the call's accessor and timeout
   argument, the threshold, and the operations and events of that call. *)
C19_NoSharedState ==
    /\ [][/\ dist_threshold' = dist_threshold
          /\ trig' = trig
          /\ echo' = echo]_vars
    /\ [][(pc = "idle" /\ pc' # "idle") => FreshCall']_vars
    /\ [](Len(ops) >= 7 =>
            ops[7].arg = PollTimeoutMs(EffectiveTimeout(timeout)))
    /\ [](Returned => result = ResultOfCall)

\* a call has returned a distance, and the handle's threshold is one of the
\* configured ones
C19_Witness ==
    /\ Returned
    /\ result.ok
    /\ read1 = "RisingEdge"
    /\ read2 = "FallingEdge"
    /\ dist_threshold \in Thresholds
    /\ trig.request = "OUTPUT"
    /\ echo.line = "echo"

====
